---- MODULE Spec2Model ----
(***************************************************************************)
(* A model of the SO(3) Wigner transform core (so3_core.c), of the forward *)
(* MEX front-end (so3_forward_mex.c) and of the Matlab reference           *)
(* transforms forward_for_dft / inverse_direct.                            *)
(*                                                                         *)
(* Numbers are modelled exactly.  A coefficient is a monomial              *)
(*      src * sgn * pi^(k.pi/2) * PROD_p p^(k.pr[p]/2)                     *)
(* where src names the input coefficient it descends from, so that every   *)
(* multiplication by sqrt((2l+1)/(16 pi^3)), sqrt(4 pi/(2l+1)), 2 pi/(2N-1)*)
(* or 2N-1 is recorded in half-integer exponents of pi and of the primes.  *)
(***************************************************************************)
EXTENDS Integers, Naturals, Sequences, FiniteSets, TLC

\* Largest harmonic band-limit L explored (N ranges over 1..L).
MaxL == 3

----------------------------------------------------------------------------
(* Exact arithmetic on monomials *)

MaxP == 2 * MaxL + 1

Primes == {p \in 2..MaxP : \A q \in 2..(p - 1) : p % q # 0}

RECURSIVE Mult(_, _)
\* multiplicity of the prime p in the positive integer k
Mult(p, k) == IF k % p = 0 THEN 1 + Mult(p, k \div p) ELSE 0

Abs(x) == IF x < 0 THEN -x ELSE x

\* C's integer division and remainder (truncation toward zero)
CDiv(a, b) == IF (a < 0) = (b < 0) THEN Abs(a) \div Abs(b) ELSE -(Abs(a) \div Abs(b))

CMod(a, b) == a - b * CDiv(a, b)

SOne == [sgn |-> 1, pi |-> 0, pr |-> [p \in Primes |-> 0]]

SMul(a, b) ==
    [sgn |-> a.sgn * b.sgn, pi |-> a.pi + b.pi,
     pr |-> [p \in Primes |-> a.pr[p] + b.pr[p]]]

\* sign * sqrt(num * pi^pn / (den * pi^pd))
SSqrt(sign, num, pn, den, pd) ==
    [sgn |-> sign, pi |-> pn - pd,
     pr |-> [p \in Primes |-> Mult(p, num) - Mult(p, den)]]

\* num * pi^pn / den
SRatio(num, pn, den) ==
    [sgn |-> 1, pi |-> 2 * pn,
     pr |-> [p \in Primes |-> 2 * (Mult(p, num) - Mult(p, den))]]

VMul(v, s) == [src |-> v.src, k |-> SMul(v.k, s)]

\* the i-th input coefficient, an exact zero, and a value the code never defined
Coef(i) == [src |-> i + 1, k |-> SOne]

ZeroV == [src |-> 0, k |-> SOne]

JunkV == [src |-> -1, k |-> SOne]

----------------------------------------------------------------------------
(* Storage layouts, buffer sizes and the index map *)

ValidTags == {"ZERO_FIRST_PAD", "NEG_FIRST_PAD", "ZERO_FIRST_COMPACT", "NEG_FIRST_COMPACT"}

PadTags == {"ZERO_FIRST_PAD", "NEG_FIRST_PAD"}

CompactTags == {"ZERO_FIRST_COMPACT", "NEG_FIRST_COMPACT"}

AllTags == ValidTags \cup {"INVALID"}

\* MexFlmnSize with N(N+1) for N(N-1) in the compact complex size
MexFlmnSizeSlip(reality, storage_str, L, N) ==
    IF storage_str = "padded"
    THEN IF reality THEN N * L * L ELSE (2 * N - 1) * L * L
    ELSE IF reality
         THEN CDiv(N * (6 * L * L - (N + 1) * (2 * N - 1)), 6)
         ELSE CDiv((2 * N - 1) * (3 * L * L - N * (N + 1)), 3)

\* flmn_size as the front-end computes it, in C integer arithmetic
MexFlmnSize(reality, storage_str, L, N) ==
    IF storage_str = "padded"
    THEN IF reality THEN N * L * L ELSE (2 * N - 1) * L * L
    ELSE IF reality
         THEN CDiv(N * (6 * L * L - (N - 1) * (2 * N - 1)), 6)
         ELSE CDiv((2 * N - 1) * (3 * L * L - N * (N - 1)), 3)

\* the storage_method the front-end derives from the two strings
MexStorageMethod(order_str, storage_str) ==
    IF storage_str = "padded"
    THEN IF order_str = "zerofirst" THEN "ZERO_FIRST_PAD"
         ELSE IF order_str = "negfirst" THEN "NEG_FIRST_PAD" ELSE "error"
    ELSE IF storage_str = "compact"
         THEN IF order_str = "zerofirst" THEN "ZERO_FIRST_COMPACT"
              ELSE IF order_str = "negfirst" THEN "NEG_FIRST_COMPACT" ELSE "error"
         ELSE "error"

StorageStr(tag) == IF tag \in PadTags THEN "padded" ELSE "compact"

OrderStr(tag) ==
    IF tag \in {"ZERO_FIRST_PAD", "ZERO_FIRST_COMPACT"} THEN "zerofirst" ELSE "negfirst"

\* sample counts of the rotation-group grid
so3_sampling_mw_nalpha(L) == 2 * L - 1

so3_sampling_mw_nbeta(L) == L

so3_sampling_mw_ngamma(N) == 2 * N - 1

\* number of coefficients stored for orientation frequency n
BlockLen(n, L, storage) == IF storage \in CompactTags THEN L * L - n * n ELSE L * L

\* position of the n-block in the layout's order of n
BlockPos(n, N, storage) ==
    IF storage \in {"ZERO_FIRST_PAD", "ZERO_FIRST_COMPACT"}
    THEN IF n < 0 THEN n + 2 * N - 1 ELSE n
    ELSE n + N - 1

\* the n stored at block position p
BlockN(p, N, storage) ==
    IF storage \in {"ZERO_FIRST_PAD", "ZERO_FIRST_COMPACT"}
    THEN IF p < N THEN p ELSE p - (2 * N - 1)
    ELSE p - N + 1

RECURSIVE BlockStart(_, _, _, _)
\* flat offset of the block at position p: the lengths of the blocks before it
BlockStart(p, L, N, storage) ==
    IF p = 0 THEN 0
    ELSE BlockStart(p - 1, L, N, storage) + BlockLen(BlockN(p - 1, N, storage), L, storage)

\* flat index of (el, m, n)
so3_sampling_elmn2ind(el, m, n, L, N, storage) ==
    BlockStart(BlockPos(n, N, storage), L, N, storage)
    + (IF storage \in CompactTags THEN el * el - n * n + el + m ELSE el * el + el + m)

\* degree of position i of a length-L^2 harmonic vector (index l^2 + l + m)
ElOf(i) == CHOOSE l \in 0..i : l * l <= i /\ i < (l + 1) * (l + 1)

----------------------------------------------------------------------------
(* The spherical-harmonic engine and the Fourier pass over the orientation *)
(* dimension, as symbolic linear maps                                      *)

NoSlice == [ok |-> FALSE, spin |-> 0, flm |-> <<>>, k |-> SOne]

\* synthesis with pole order spin: coefficients of degree below |spin| take no part
ssht_core_mw_inverse_sov_sym(flm, L, spin) ==
    [ok |-> TRUE, spin |-> spin,
     flm |-> [i \in 0..(L * L - 1) |-> IF ElOf(i) >= Abs(spin) THEN flm[i] ELSE ZeroV],
     k |-> SOne]

\* analysis with pole order spin: undoes the synthesis of the same pole order and
\* returns exact zeros below degree |spin|
ssht_core_mw_forward_sov_conv_sym(slice, L, spin) ==
    [i \in 0..(L * L - 1) |->
        IF ElOf(i) < Abs(spin) THEN ZeroV
        ELSE IF slice.ok /\ slice.spin = spin THEN VMul(slice.flm[i], slice.k)
        ELSE JunkV]

SliceNeg(slice) == [slice EXCEPT !.k = SMul(@, [SOne EXCEPT !.sgn = -1])]

SliceMul(slice, s) == [slice EXCEPT !.k = SMul(@, s)]

\* sum over g of omega^(e[g]) for a K-th root of unity omega: K when every
\* exponent is 0, 0 along a non-trivial geometric progression
RootSum(e, K) ==
    IF \A g \in 0..(K - 1) : e[g] = 0 THEN K
    ELSE IF \A g \in 0..(K - 1) : e[g] = (e[1] * g) % K THEN 0
    ELSE -1

\* FFTW_BACKWARD over the orientation dimension, unnormalised:
\* f[g] = SUM_k omega^(+k g) fn[k], kept as the exponents w[g][k] over the basis fn
DftBackward(fn, K) ==
    [basis |-> fn, w |-> [g \in 0..(K - 1) |-> [k \in 0..(K - 1) |-> (k * g) % K]]]

\* FFTW_FORWARD over the orientation dimension, unnormalised:
\* out[j] = SUM_g omega^(-j g) f[g] = SUM_k RootSum(w[.][k] - j .) basis[k]
DftForward(f, K) ==
    [j \in 0..(K - 1) |->
        LET amp == [k \in 0..(K - 1) |->
                      RootSum([g \in 0..(K - 1) |-> (f.w[g][k] - j * g) % K], K)]
            nz  == {k \in 0..(K - 1) : amp[k] # 0}
        IN  IF Cardinality(nz) = 1 /\ (\A k \in nz : amp[k] > 0)
            THEN LET k == CHOOSE k \in nz : TRUE
                 IN  SliceMul(f.basis[k], SRatio(amp[k], 0, 1))
            ELSE NoSlice]

----------------------------------------------------------------------------
(* State *)

VARIABLES
    entry,          \* which entry point the caller uses
    pc,             \* position in the running routine
    L, N, storage,  \* arguments of the running core routine
    n,              \* loop variable of the core routines
    ind,            \* flat index computed for the current n
    flmn,           \* coefficient vector read by the inverse transform
    flm,            \* length-L^2 work vector
    fn,             \* the 2N-1 slices, by physical position
    f,              \* the sampled function
    alloc,          \* transient buffers currently allocated
    fnWrites,       \* how often each slice position of fn was written (inverse)
    acc,            \* flmn indices read / flm indices written in the current iteration
    args,           \* right-hand-side arguments of the front-end
    flmn_size,      \* the front-end's flmn_size
    storage_method, \* the front-end's storage_method
    flmn_out,       \* coefficient vector written by the forward transform
    fwdLog,         \* per n: flmn_out indices written and the rescaling trace
    m,              \* loop variable of forward_for_dft (an order m, or a degree l in step 5)
    thetasExt,      \* extended colatitudes, in units of pi/(2L-1)
    fm,             \* fm(row, col): azimuthal coefficients, with a write count per entry
    fmm,            \* fmm(m, mp): the terms of the sum of step 3
    gmm,            \* gmm(m, mp): the weights of step 4 applied to fmm(m, mpp)
    dl,             \* the running Wigner-d matrix of step 5
    lmi,            \* running coefficient index of step 5
    dflm,           \* coefficient vector of forward_for_dft
    jk,             \* grid point <<j, k>> of inverse_direct
    deg,            \* degree loop variable l of inverse_direct
    lmindex,        \* running coefficient index of inverse_direct
    sum,            \* the terms added to sum for the current grid point
    fdir,           \* the samples f(j, k) of inverse_direct: the terms of each sum
    heap            \* the core routine called last and its heap events, in program order

coreVars == <<L, N, storage, n, ind, flmn, flm, fn, f, fnWrites, acc>>

mexVars == <<args, flmn_size, storage_method>>

fwdVars == <<flmn_out, fwdLog>>

dftVars == <<m, thetasExt, fm, fmm, gmm, dl, lmi, dflm>>

dirVars == <<jk, deg, lmindex, sum, fdir>>

Entries == {"roundtrip", "mex", "inverse", "forward", "dft", "direct"}

Faults == {"none", "nrhs", "ndims", "dims", "L", "N", "order", "storage"}

\* the right-hand side a caller passes for band-limits l0, n0 and layout tag,
\* with one argument possibly made invalid
MexArgs(l0, n0, tag, fault, reality) ==
    [nrhs |-> IF fault = "nrhs" THEN 7 ELSE 8,
     nlhs |-> 1,
     ndims |-> IF fault = "ndims" THEN 2 ELSE 3,
     f_na |-> so3_sampling_mw_nalpha(l0),
     f_nb |-> so3_sampling_mw_nbeta(l0),
     f_ng |-> so3_sampling_mw_ngamma(n0) + (IF fault = "dims" THEN 1 ELSE 0),
     L |-> IF fault = "L" THEN 0 ELSE l0,
     N |-> IF fault = "N" THEN 0 ELSE n0,
     order_str |-> IF fault = "order" THEN "bogus" ELSE OrderStr(tag),
     storage_str |-> IF fault = "storage" THEN "bogus" ELSE StorageStr(tag),
     reality |-> reality]

\* size(f) of the sample array passed to forward_for_dft
DftArgs(l0, fault) == [nt |-> l0 + (IF fault = "dims" THEN 1 ELSE 0), np |-> 2 * l0 - 1]

\* length(flm) of the coefficient vector passed to inverse_direct
DirArgs(l0, fault) == [len |-> l0 * l0 + (IF fault = "dims" THEN 1 ELSE 0)]

\* samples of an arbitrary function: the backward transform of slices nothing is known about
AnyF(K) == DftBackward([k \in 0..(K - 1) |-> NoSlice], K)

NoAcc == [rd |-> {}, wr |-> {}]

Init ==
    \E l0 \in 1..MaxL : \E n0 \in 1..l0 : \E e \in Entries :
    \E tag \in AllTags : \E fault \in Faults : \E re \in BOOLEAN :
        /\ e = "roundtrip" => tag \in ValidTags /\ fault = "none" /\ ~re
        /\ e = "mex" => tag \in ValidTags
        /\ e \in {"inverse", "forward"} => tag = "INVALID" /\ fault = "none" /\ ~re
        /\ e \in {"dft", "direct"} =>
               tag = "INVALID" /\ fault \in {"none", "dims"} /\ ~re /\ n0 = 1
        /\ entry = e
        /\ pc = CASE e \in {"roundtrip", "inverse"} -> "inv_start"
                  [] e = "forward" -> "fwd_start"
                  [] e = "dft" -> "dft_start"
                  [] e = "direct" -> "dir_start"
                  [] OTHER -> "mex_start"
        /\ L = IF e = "mex" THEN 0 ELSE l0
        /\ N = IF e = "mex" THEN 0 ELSE n0
        /\ storage = IF e = "mex" THEN "none" ELSE tag
        /\ n = 0
        /\ ind = 0
        /\ flmn = IF e \in {"roundtrip", "inverse"}
                  THEN [i \in 0..(MexFlmnSize(FALSE, StorageStr(tag), l0, n0) - 1) |-> Coef(i)]
                  ELSE <<>>
        /\ flm = <<>>
        /\ fn = <<>>
        /\ f = IF e \in {"roundtrip", "inverse", "dft", "direct"} THEN <<>> ELSE AnyF(2 * n0 - 1)
        /\ alloc = {}
        /\ fnWrites = <<>>
        /\ acc = NoAcc
        /\ args = IF e \in {"roundtrip", "mex"} THEN MexArgs(l0, n0, tag, fault, re)
                  ELSE IF e = "dft" THEN DftArgs(l0, fault)
                  ELSE IF e = "direct" THEN DirArgs(l0, fault) ELSE <<>>
        /\ flmn_size = 0
        /\ storage_method = "none"
        /\ flmn_out = IF e = "forward"
                      THEN [i \in 0..((2 * n0 - 1) * l0 * l0 - 1) |-> ZeroV]
                      ELSE <<>>
        /\ fwdLog = <<>>
        /\ m = 0
        /\ thetasExt = <<>>
        /\ fm = <<>>
        /\ fmm = <<>>
        /\ gmm = <<>>
        /\ dl = <<>>
        /\ lmi = 0
        /\ dflm = <<>>
        /\ jk = <<0, 0>>
        /\ deg = 0
        /\ lmindex = 0
        /\ sum = <<>>
        /\ fdir = <<>>
        /\ heap = [call |-> "none", log |-> <<>>]

----------------------------------------------------------------------------
(* heap events of the two core routines *)

\* malloc, calloc, fftw_plan_many_dft
Acq(r) == [op |-> "acquire", res |-> r]

\* free, fftw_destroy_plan
Rel(r) == [op |-> "release", res |-> r]

\* a read or write of a buffer, or fftw_execute of a plan
Use(r) == [op |-> "use", res |-> r]

\* inverse: fn = malloc, plan = fftw_plan_many_dft(fn -> f), flm = calloc
InvPrologue == <<Acq("fn"), Acq("plan"), Acq("flm")>>

\* inverse: free(flm); fftw_execute(plan), which reads fn; fftw_destroy_plan; free(fn)
InvEpilogue == <<Rel("flm"), Use("plan"), Use("fn"), Rel("plan"), Rel("fn")>>

\* forward: ftemp = malloc, memcpy into it, fn = malloc, the plan ftemp -> fn is made,
\* executed and destroyed, free(ftemp), fn is scaled, flm = malloc for compact layouts
FwdPrologue(st) ==
    <<Acq("ftemp"), Use("ftemp"), Acq("fn"), Acq("plan"),
      Use("plan"), Use("ftemp"), Use("fn"), Rel("plan"), Rel("ftemp"), Use("fn")>>
    \o (IF st \in CompactTags THEN <<Acq("flm")>> ELSE <<>>)

\* forward, one n: the engine reads a slice of fn and writes flmn directly (padded)
\* or flm, which memcpy then reads (compact)
FwdSliceUses(st) ==
    IF st \in CompactTags THEN <<Use("fn"), Use("flm"), Use("flm")>> ELSE <<Use("fn")>>

\* the forward epilogue with free(flm) not guarded by the layout
FwdEpilogueAlwaysFlm(st) == <<Rel("flm"), Rel("fn")>>

\* forward: free(flm) for compact layouts; free(fn)
FwdEpilogue(st) ==
    (IF st \in CompactTags THEN <<Rel("flm")>> ELSE <<>>) \o <<Rel("fn")>>

----------------------------------------------------------------------------
(* so3_core_mw_inverse_via_ssht *)

\* a read of a C array: outside the array the value is not defined
Rd(arr, i) == IF i \in DOMAIN arr THEN arr[i] ELSE JunkV

\* sqrt((2 el + 1) / (16 pi^3))
InvScale(el) == SSqrt(1, 2 * el + 1, 0, 16, 3)

\* InvExtract without the zero-fill of the compact layouts
InvExtractNoZero(flmPrev, src, nn, LL, NN, tag) ==
    IF tag \in PadTags
    THEN LET i0 == so3_sampling_elmn2ind(0, 0, nn, LL, NN, tag)
         IN  [i \in DOMAIN flmPrev |->
                IF i < LL * LL THEN Rd(src, i0 + i) ELSE flmPrev[i]]
    ELSE LET i0 == so3_sampling_elmn2ind(Abs(nn), -Abs(nn), nn, LL, NN, tag)
         IN  [i \in DOMAIN flmPrev |->
                IF i >= nn * nn /\ i < LL * LL THEN Rd(src, i0 + (i - nn * nn))
                ELSE flmPrev[i]]

\* the switch on the storage method: flm after the memcpy (and, for compact
\* layouts, the zero-fill of the first n^2 entries) for slice n
InvExtract(flmPrev, src, nn, LL, NN, tag) ==
    IF tag \in PadTags
    THEN LET i0 == so3_sampling_elmn2ind(0, 0, nn, LL, NN, tag)
         IN  [i \in DOMAIN flmPrev |->
                IF i < LL * LL THEN Rd(src, i0 + i) ELSE flmPrev[i]]
    ELSE LET i0 == so3_sampling_elmn2ind(Abs(nn), -Abs(nn), nn, LL, NN, tag)
         IN  [i \in DOMAIN flmPrev |->
                IF i < nn * nn THEN ZeroV
                ELSE IF i < nn * nn + (LL * LL - nn * nn) THEN Rd(src, i0 + (i - nn * nn))
                ELSE flmPrev[i]]

\* flmn indices the switch reads and flm indices it writes
InvAccess(nn, LL, NN, tag) ==
    IF tag \in PadTags
    THEN LET i0 == so3_sampling_elmn2ind(0, 0, nn, LL, NN, tag)
         IN  [rd |-> i0..(i0 + LL * LL - 1), wr |-> 0..(LL * LL - 1)]
    ELSE LET i0 == so3_sampling_elmn2ind(Abs(nn), -Abs(nn), nn, LL, NN, tag)
         IN  [rd |-> i0..(i0 + (LL * LL - nn * nn) - 1),
              wr |-> (nn * nn)..(LL * LL - 1) \cup 0..(nn * nn - 1)]

RECURSIVE InvRescaleFrom(_, _, _, _, _)
\* the loop over el with its running i and offset
InvRescaleFrom(v, el, i, offset, LL) ==
    IF el >= LL THEN v
    ELSE LET hi == offset + 2 * el + 1
         IN  InvRescaleFrom(
                 [j \in DOMAIN v |-> IF j >= i /\ j < hi THEN VMul(v[j], InvScale(el)) ELSE v[j]],
                 el + 1, IF hi > i THEN hi ELSE i, IF hi > i THEN hi ELSE i, LL)

InvRescale(v, LL) == InvRescaleFrom(v, 0, 0, 0, LL)

\* InvOffset storing the slices in the order -N+1..N-1
InvOffsetNegFirst(nn, NN) == nn + NN - 1

\* physical slice position of n
InvOffset(nn, NN) == IF nn < 0 THEN nn + 2 * NN - 1 ELSE nn

\* InvNegates written as n % 2 == 1
InvNegatesEq1(nn) == CMod(nn, 2) = 1

\* if (n % 2): C's remainder, -1 for a negative odd n
InvNegates(nn) == CMod(nn, 2) # 0

Inv_alloc ==
    /\ pc = "inv_start"
    /\ alloc' = alloc \cup {"fn", "plan", "flm"}
    /\ heap' = [call |-> "inverse", log |-> InvPrologue]
    /\ fn' = [k \in 0..(2 * N - 2) |-> NoSlice]
    /\ fnWrites' = [k \in 0..(2 * N - 2) |-> 0]
    /\ flm' = [i \in 0..(L * L - 1) |-> ZeroV]
    /\ n' = -N + 1
    /\ pc' = IF -N + 1 < N THEN "inv_extract" ELSE "inv_fft"
    /\ UNCHANGED <<dirVars, dftVars, entry, L, N, storage, ind, flmn, f, acc, mexVars, fwdVars>>

Inv_extract ==
    /\ pc = "inv_extract"
    /\ IF storage \in ValidTags
       THEN /\ flm' = InvExtract(flm, flmn, n, L, N, storage)
            /\ acc' = InvAccess(n, L, N, storage)
            /\ ind' = IF storage \in PadTags
                      THEN so3_sampling_elmn2ind(0, 0, n, L, N, storage)
                      ELSE so3_sampling_elmn2ind(Abs(n), -Abs(n), n, L, N, storage)
            /\ heap' = [heap EXCEPT !.log = @ \o <<Use("flm")>>]
            /\ pc' = "inv_rescale"
       ELSE /\ pc' = "error"
            /\ UNCHANGED heap
            /\ UNCHANGED <<flm, acc, ind>>
    /\ UNCHANGED <<dirVars, dftVars, entry, L, N, storage, n, flmn, fn, f, alloc, fnWrites, mexVars, fwdVars>>

Inv_rescale ==
    /\ pc = "inv_rescale"
    /\ flm' = InvRescale(flm, L)
    /\ heap' = [heap EXCEPT !.log = @ \o <<Use("flm")>>]
    /\ pc' = "inv_ssht"
    /\ UNCHANGED <<dirVars, dftVars, entry, L, N, storage, n, ind, flmn, fn, f, alloc, fnWrites, acc,
                   mexVars, fwdVars>>

Inv_ssht ==
    /\ pc = "inv_ssht"
    /\ LET offset == InvOffset(n, N)
           slice  == ssht_core_mw_inverse_sov_sym(flm, L, -n)
       IN  /\ fn' = [k \in DOMAIN fn |->
                      IF k = offset
                      THEN IF InvNegates(n) THEN SliceNeg(slice) ELSE slice
                      ELSE fn[k]]
           /\ fnWrites' = [k \in DOMAIN fnWrites |->
                            IF k = offset THEN fnWrites[k] + 1 ELSE fnWrites[k]]
    /\ heap' = [heap EXCEPT !.log = @ \o <<Use("flm"), Use("fn")>>]
    /\ n' = n + 1
    /\ pc' = IF n + 1 < N THEN "inv_extract" ELSE "inv_fft"
    /\ UNCHANGED <<dirVars, dftVars, entry, L, N, storage, ind, flmn, flm, f, alloc, acc, mexVars, fwdVars>>

Inv_fft ==
    /\ pc = "inv_fft"
    /\ f' = DftBackward(fn, 2 * N - 1)
    /\ heap' = [heap EXCEPT !.log = @ \o InvEpilogue]
    /\ alloc' = alloc \ {"flm", "plan", "fn"}
    /\ pc' = IF entry = "roundtrip" THEN "mex_start" ELSE "done"
    /\ UNCHANGED <<dirVars, dftVars, entry, L, N, storage, n, ind, flmn, flm, fn, fnWrites, acc,
                   mexVars, fwdVars>>

----------------------------------------------------------------------------
(* mexFunction of so3_forward_mex.c *)

Mex_args ==
    /\ pc = "mex_start"
    /\ pc' = IF args.nrhs # 8 \/ args.nlhs # 1 \/ args.ndims # 3 THEN "error" ELSE "mex_copy"
    /\ UNCHANGED <<heap, dirVars, dftVars, entry, coreVars, alloc, mexVars, fwdVars>>

Mex_copy ==
    /\ pc = "mex_copy"
    /\ alloc' = alloc \cup {IF args.reality THEN "mex_fr" ELSE "mex_f"}
    /\ pc' = "mex_parse"
    /\ UNCHANGED <<heap, dirVars, dftVars, entry, coreVars, mexVars, fwdVars>>

\* the checks of L, N and of the sample-grid dimensions
MexParseOk(a) ==
    /\ a.L > 0
    /\ a.N > 0
    /\ a.f_na = so3_sampling_mw_nalpha(a.L)
    /\ a.f_nb = so3_sampling_mw_nbeta(a.L)
    /\ a.f_ng = so3_sampling_mw_ngamma(a.N)

Mex_parse ==
    /\ pc = "mex_parse"
    /\ L' = args.L
    /\ N' = IF args.L > 0 THEN args.N ELSE N
    /\ pc' = IF MexParseOk(args) THEN "mex_layout" ELSE "error"
    /\ UNCHANGED <<heap, dirVars, dftVars, entry, storage, n, ind, flmn, flm, fn, f, fnWrites, acc, alloc,
                   mexVars, fwdVars>>

Mex_layout ==
    /\ pc = "mex_layout"
    /\ flmn_size' = IF args.storage_str \in {"padded", "compact"}
                    THEN MexFlmnSize(args.reality, args.storage_str, L, N)
                    ELSE flmn_size
    /\ storage_method' = MexStorageMethod(args.order_str, args.storage_str)
    /\ pc' = IF MexStorageMethod(args.order_str, args.storage_str) = "error"
             THEN "error" ELSE "mex_call"
    /\ UNCHANGED <<heap, dirVars, dftVars, entry, coreVars, alloc, args, fwdVars>>

Mex_call ==
    /\ pc = "mex_call"
    /\ alloc' = alloc \cup {"mex_flmn"}
    /\ IF args.reality
       THEN \* so3_core_mw_forward_via_ssht_real: its result is not modelled
            /\ flmn_out' = [i \in 0..(flmn_size - 1) |-> JunkV]
            /\ pc' = "mex_return"
            /\ UNCHANGED storage
       ELSE /\ flmn_out' = [i \in 0..(flmn_size - 1) |-> ZeroV]
            /\ storage' = storage_method
            /\ pc' = "fwd_start"
    /\ UNCHANGED <<heap, dirVars, dftVars, entry, L, N, n, ind, flmn, flm, fn, f, fnWrites, acc, mexVars, fwdLog>>

Mex_return ==
    /\ pc = "mex_return"
    /\ alloc' = alloc \ {"mex_f", "mex_fr", "mex_flmn"}
    /\ pc' = "done"
    /\ UNCHANGED <<heap, dirVars, dftVars, entry, coreVars, mexVars, fwdVars>>

----------------------------------------------------------------------------
(* so3_core_mw_forward_via_ssht *)

\* FftNorm without the division by 2N-1
FftNormNoDiv(NN) == SRatio(2, 1, 1)

\* 2 pi / (2N - 1)
FftNorm(NN) == SRatio(2, 1, 2 * NN - 1)

\* sign * sqrt(4 pi / (2 el + 1))
FwdScale(sign, el) == SSqrt(sign, 4, 1, 2 * el + 1, 0)

\* if (n % 2) sign = -1; else sign = 1;
FwdSign(nn) == IF CMod(nn, 2) # 0 THEN -1 ELSE 1

\* physical slice position of n
FwdOffset(nn, NN) == IF nn < 0 THEN nn + 2 * NN - 1 ELSE nn

\* FwdInd with the padded layouts' (0, 0, n) for every layout
FwdIndPad(nn, LL, NN, tag) == so3_sampling_elmn2ind(0, 0, nn, LL, NN, tag)

\* the index the switch computes for slice n
FwdInd(nn, LL, NN, tag) ==
    IF tag \in PadTags
    THEN so3_sampling_elmn2ind(0, 0, nn, LL, NN, tag)
    ELSE so3_sampling_elmn2ind(Abs(nn), -Abs(nn), nn, LL, NN, tag)

\* FwdEl0 starting from degree 0 in every layout
FwdEl0Zero(nn, tag) == 0

\* the degree the rescaling loop starts from
FwdEl0(nn, tag) == IF tag \in PadTags THEN 0 ELSE Abs(nn)

\* offsets (relative to the n-block) at which the switch stores coefficients,
\* each with the index of the analysed vector it stores there
FwdStore(nn, LL, tag) ==
    IF tag \in PadTags
    THEN [i \in 0..(LL * LL - 1) |-> i]
    ELSE [i \in 0..(LL * LL - nn * nn - 1) |-> nn * nn + i]

RECURSIVE FwdTraceFrom(_, _, _, _)
\* the rescaling loop: the pairs <<i, el>> in the order the loop visits them
FwdTraceFrom(el, i, offset, LL) ==
    IF el >= LL THEN <<>>
    ELSE LET hi == offset + 2 * el + 1
             cnt == IF hi > i THEN hi - i ELSE 0
         IN  [j \in 1..cnt |-> <<i + j - 1, el>>] \o FwdTraceFrom(el + 1, i + cnt, i + cnt, LL)

FwdTrace(nn, LL, tag) == FwdTraceFrom(FwdEl0(nn, tag), 0, 0, LL)

RECURSIVE FwdApply(_, _, _, _)
\* flmn[ind + i] *= sign * sqrt(4 pi / (2 el + 1)) along the trace
FwdApply(arr, base, trace, sign) ==
    IF trace = <<>> THEN arr
    ELSE LET at == base + Head(trace)[1]
             nx == IF at \in DOMAIN arr
                   THEN [arr EXCEPT ![at] = VMul(@, FwdScale(sign, Head(trace)[2]))]
                   ELSE arr
         IN  FwdApply(nx, base, Tail(trace), sign)

Fwd_fft ==
    /\ pc = "fwd_start"
    /\ fn' = [k \in 0..(2 * N - 2) |-> SliceMul(DftForward(f, 2 * N - 1)[k], FftNorm(N))]
    /\ heap' = [call |-> "forward", log |-> FwdPrologue(storage)]
    /\ alloc' = alloc \cup {"fn"} \cup (IF storage \in CompactTags THEN {"flm"} ELSE {})
    /\ n' = -N + 1
    /\ pc' = IF -N + 1 < N THEN "fwd_analyse" ELSE "fwd_free"
    /\ UNCHANGED <<dirVars, dftVars, entry, L, N, storage, ind, flmn, flm, f, fnWrites, acc, mexVars, fwdVars>>

Fwd_analyse ==
    /\ pc = "fwd_analyse"
    /\ IF storage \in ValidTags
       THEN LET res   == ssht_core_mw_forward_sov_conv_sym(fn[FwdOffset(n, N)], L, -n)
                i0    == FwdInd(n, L, N, storage)
                store == FwdStore(n, L, storage)
            IN  /\ ind' = i0
                /\ flm' = IF storage \in CompactTags THEN res ELSE flm
                /\ flmn_out' = [i \in DOMAIN flmn_out |->
                                  IF i - i0 \in DOMAIN store THEN res[store[i - i0]]
                                  ELSE flmn_out[i]]
                /\ fwdLog' = (n :> [wr |-> {i0 + i : i \in DOMAIN store}, sc |-> <<>>,
                                     sign |-> FwdSign(n), scaled |-> FALSE]) @@ fwdLog
                /\ heap' = [heap EXCEPT !.log = @ \o FwdSliceUses(storage)]
                /\ pc' = "fwd_rescale"
       ELSE /\ pc' = "error"
            /\ UNCHANGED heap
            /\ UNCHANGED <<ind, flm, flmn_out, fwdLog>>
    /\ UNCHANGED <<dirVars, dftVars, entry, L, N, storage, n, flmn, fn, f, alloc, fnWrites, acc, mexVars>>

Fwd_rescale ==
    /\ pc = "fwd_rescale"
    /\ LET trace == FwdTrace(n, L, storage)
       IN  /\ flmn_out' = FwdApply(flmn_out, ind, trace, fwdLog[n].sign)
           /\ fwdLog' = [fwdLog EXCEPT
                            ![n].sc = [j \in DOMAIN trace |-> <<ind + trace[j][1], trace[j][2]>>],
                            ![n].scaled = TRUE]
    /\ n' = n + 1
    /\ pc' = IF n + 1 < N THEN "fwd_analyse" ELSE "fwd_free"
    /\ UNCHANGED <<heap, dirVars, dftVars, entry, L, N, storage, ind, flmn, flm, fn, f, alloc, fnWrites, acc, mexVars>>

Fwd_free ==
    /\ pc = "fwd_free"
    /\ heap' = [heap EXCEPT !.log = @ \o FwdEpilogue(storage)]
    /\ alloc' = alloc \ {"flm", "fn"}
    /\ pc' = IF entry = "forward" THEN "done" ELSE "mex_return"
    /\ UNCHANGED <<dirVars, dftVars, entry, coreVars, mexVars, fwdVars>>

----------------------------------------------------------------------------
(* forward_for_dft *)

\* colatitudes of ssht_sampling(L), theta_t = (2t+1) pi/(2L-1), in units of pi/(2L-1)
ssht_sampling_thetas(LL) == [i \in 1..LL |-> 2 * (i - 1) + 1]

\* 2 pi in units of pi/(2L-1)
TwoPi(LL) == 2 * (2 * LL - 1)

\* thetasExt = [thetas; 2*pi - thetas(end-1:-1:1)]
ThetasExt(LL) ==
    LET thetas == ssht_sampling_thetas(LL)
    IN  thetas \o [j \in 1..(LL - 1) |-> TwoPi(LL) - thetas[LL - j]]

\* (-1)^mm
MinusOnePow(mm) == IF mm % 2 = 0 THEN 1 ELSE -1

NoEntry == [m |-> 0, t |-> -1, sgn |-> 0, refl |-> FALSE, w |-> 0]

RECURSIVE Step12From(_, _, _, _)
\* steps 1 and 2 for order mm, colatitude indices t..L-1: sum is the azimuthal
\* coefficient of order mm of sample row t
Step12From(a, mm, t, LL) ==
    IF t > LL - 1 THEN a
    ELSE LET c1 == <<LL + mm, LL + t>>
             a1 == [a EXCEPT ![c1] = [m |-> mm, t |-> t, sgn |-> 1, refl |-> FALSE,
                                      w |-> a[c1].w + 1]]
             c2 == <<LL + mm, LL - t>>
             a2 == IF t > 0
                   THEN [a1 EXCEPT ![c2] = [m |-> mm, t |-> t, sgn |-> MinusOnePow(mm),
                                            refl |-> TRUE, w |-> a1[c2].w + 1]]
                   ELSE a1
         IN  Step12From(a2, mm, t + 1, LL)

\* step 3 for row mm and order mp: the terms fm(L+m, t+1) * exp(-1i*mp*thetasExt(t+1))
Step3Terms(a, ext, mm, mp, LL) ==
    [k \in 1..Len(ext) |-> [e |-> a[<<LL + mm, k>>], theta |-> ext[k], mp |-> mp]]

\* DeconvWeight testing dm == 1 instead of abs(dm) == 1
DeconvWeightPosOnly(dmm) ==
    IF dmm = 1 THEN [re |-> <<0, 1>>, im |-> dmm]
    ELSE IF dmm % 2 = 0 THEN [re |-> <<2, 1 - dmm * dmm>>, im |-> 0]
    ELSE [re |-> <<0, 1>>, im |-> 0]

\* the weight w of step 4 for dm = mpp - mp: re is a fraction <<num, den>>,
\* im is in units of pi/2
DeconvWeight(dmm) ==
    IF Abs(dmm) = 1 THEN [re |-> <<0, 1>>, im |-> dmm]
    ELSE IF dmm % 2 = 0 THEN [re |-> <<2, 1 - dmm * dmm>>, im |-> 0]
    ELSE [re |-> <<0, 1>>, im |-> 0]

\* zeros(2*L-1, 2*L-1): the matrix no recursion step has touched
zeros(rows, cols) == <<>>

\* pi/2 as a fraction <<num, den>> in units of pi/(2L-1)
HalfPi(LL) == <<2 * LL - 1, 2>>

\* the Wigner-d recursion: the matrix of degree el at angle theta computed from
\* the matrix prev, written as the calls that led to it
ssht_dl(prev, LL, el, theta) == Append(prev, [el |-> el, theta |-> theta])

Ms(LL) == (-LL + 1)..(LL - 1)

Dft_check ==
    /\ pc = "dft_start"
    /\ pc' = IF args.nt # L \/ args.np # 2 * L - 1 THEN "error" ELSE "dft_setup"
    /\ UNCHANGED <<heap, dirVars, dftVars, entry, coreVars, alloc, mexVars, fwdVars>>

Dft_setup ==
    /\ pc = "dft_setup"
    /\ thetasExt' = ThetasExt(L)
    /\ dflm' = [i \in 1..(L * L) |-> <<>>]
    /\ fm' = [c \in (1..(2 * L - 1)) \X (1..(2 * L - 1)) |-> NoEntry]
    /\ fmm' = <<>>
    /\ gmm' = <<>>
    /\ m' = -L + 1
    /\ pc' = "dft_step12"
    /\ UNCHANGED <<heap, dirVars, dl, lmi, entry, coreVars, alloc, mexVars, fwdVars>>

Dft_step12 ==
    /\ pc = "dft_step12"
    /\ fm' = Step12From(fm, m, 0, L)
    /\ m' = IF m + 1 <= L - 1 THEN m + 1 ELSE -L + 1
    /\ pc' = IF m + 1 <= L - 1 THEN "dft_step12" ELSE "dft_step3"
    /\ UNCHANGED <<heap, dirVars, thetasExt, fmm, gmm, dl, lmi, dflm, entry, coreVars, alloc, mexVars, fwdVars>>

Dft_step3 ==
    /\ pc = "dft_step3"
    /\ fmm' = [c \in {m} \X Ms(L) |-> Step3Terms(fm, thetasExt, c[1], c[2], L)] @@ fmm
    /\ m' = IF m + 1 <= L - 1 THEN m + 1 ELSE -L + 1
    /\ pc' = IF m + 1 <= L - 1 THEN "dft_step3" ELSE "dft_step4"
    /\ UNCHANGED <<heap, dirVars, thetasExt, fm, gmm, dl, lmi, dflm, entry, coreVars, alloc, mexVars, fwdVars>>

Dft_step4 ==
    /\ pc = "dft_step4"
    /\ gmm' = [c \in {m} \X Ms(L) |-> [mpp \in Ms(L) |-> DeconvWeight(mpp - c[2])]] @@ gmm
    /\ m' = IF m + 1 <= L - 1 THEN m + 1 ELSE 0
    /\ pc' = IF m + 1 <= L - 1 THEN "dft_step4" ELSE "dft_step5"
    /\ dl' = IF m + 1 <= L - 1 THEN dl ELSE zeros(2 * L - 1, 2 * L - 1)
    /\ lmi' = IF m + 1 <= L - 1 THEN lmi ELSE 1
    /\ UNCHANGED <<heap, dirVars, thetasExt, fm, fmm, dflm, entry, coreVars, alloc, mexVars, fwdVars>>

Dft_step5 ==
    /\ pc = "dft_step5"
    /\ LET d == ssht_dl(dl, L, m, HalfPi(L))
       IN  /\ dl' = d
           /\ dflm' = [i \in DOMAIN dflm |->
                         IF i >= lmi /\ i < lmi + 2 * m + 1
                         THEN [l |-> m, m |-> -m + (i - lmi), dl |-> d]
                         ELSE dflm[i]]
    /\ lmi' = lmi + 2 * m + 1
    /\ m' = m + 1
    /\ pc' = IF m + 1 <= L - 1 THEN "dft_step5" ELSE "done"
    /\ UNCHANGED <<heap, dirVars, thetasExt, fm, fmm, gmm, entry, coreVars, alloc, mexVars, fwdVars>>

----------------------------------------------------------------------------
(* inverse_direct *)

\* [thetas, phis] = ssht_sampling(L): the grid points <<j, k>>
GridPoints(LL) == (1..LL) \X (1..(2 * LL - 1))

\* the per-point initialisation with zeros hoisted out of the two loops
DirPointInitStale(prev) == [sum |-> <<>>, lmindex |-> 1, dl |-> prev.dl]

\* sum = 0; lmindex = 1; dl = zeros(2*L-1,2*L-1), whatever the previous point left
DirPointInit(prev) == [sum |-> <<>>, lmindex |-> 1, dl |-> zeros(2 * L - 1, 2 * L - 1)]

\* the terms flm(lmindex)*sqrt((2*l+1)/(4*pi))*dl(m+L, L)*exp(1i*m*phi), m = -l..l
DirTerms(d, el, lm0, kk) ==
    [i \in 1..(2 * el + 1) |->
        [l |-> el, m |-> -el + (i - 1), lmindex |-> lm0 + (i - 1), dl |-> d, phi |-> kk]]

Dir_check ==
    /\ pc = "dir_start"
    /\ pc' = IF args.len # L * L THEN "error" ELSE "dir_setup"
    /\ UNCHANGED <<heap, dirVars, dftVars, entry, coreVars, alloc, mexVars, fwdVars>>

Dir_setup ==
    /\ pc = "dir_setup"
    /\ fdir' = [c \in GridPoints(L) |-> <<>>]
    /\ jk' = <<1, 1>>
    /\ pc' = "dir_point"
    /\ UNCHANGED <<heap, deg, lmindex, sum, dftVars, entry, coreVars, alloc, mexVars, fwdVars>>

Dir_point ==
    /\ pc = "dir_point"
    /\ LET st == DirPointInit([sum |-> sum, lmindex |-> lmindex, dl |-> dl])
       IN  /\ sum' = st.sum
           /\ lmindex' = st.lmindex
           /\ dl' = st.dl
    /\ deg' = 0
    /\ pc' = "dir_degree"
    /\ UNCHANGED <<heap, jk, fdir, m, thetasExt, fm, fmm, gmm, lmi, dflm, entry, coreVars, alloc,
                   mexVars, fwdVars>>

Dir_degree ==
    /\ pc = "dir_degree"
    /\ LET theta == <<ssht_sampling_thetas(L)[jk[1]], 1>>
           d == ssht_dl(dl, L, deg, theta)
       IN  /\ dl' = d
           /\ sum' = sum \o DirTerms(d, deg, lmindex, jk[2])
    /\ lmindex' = lmindex + 2 * deg + 1
    /\ deg' = deg + 1
    /\ pc' = IF deg + 1 <= L - 1 THEN "dir_degree" ELSE "dir_store"
    /\ UNCHANGED <<heap, jk, fdir, m, thetasExt, fm, fmm, gmm, lmi, dflm, entry, coreVars, alloc,
                   mexVars, fwdVars>>

Dir_store ==
    /\ pc = "dir_store"
    /\ fdir' = [fdir EXCEPT ![jk] = sum]
    /\ jk' = IF jk[2] + 1 <= 2 * L - 1 THEN <<jk[1], jk[2] + 1>> ELSE <<jk[1] + 1, 1>>
    /\ pc' = IF jk[2] + 1 <= 2 * L - 1 \/ jk[1] + 1 <= L THEN "dir_point" ELSE "done"
    /\ UNCHANGED <<heap, deg, lmindex, sum, dftVars, entry, coreVars, alloc, mexVars, fwdVars>>

----------------------------------------------------------------------------

vars == <<entry, pc, coreVars, alloc, mexVars, fwdVars, dftVars, dirVars, heap>>

Next ==
    \/ Inv_alloc \/ Inv_extract \/ Inv_rescale \/ Inv_ssht \/ Inv_fft
    \/ Mex_args \/ Mex_copy \/ Mex_parse \/ Mex_layout \/ Mex_call \/ Mex_return
    \/ Fwd_fft \/ Fwd_analyse \/ Fwd_rescale \/ Fwd_free
    \/ Dft_check \/ Dft_setup \/ Dft_step12 \/ Dft_step3 \/ Dft_step4 \/ Dft_step5
    \/ Dir_check \/ Dir_setup \/ Dir_point \/ Dir_degree \/ Dir_store

Spec == Init /\ [][Next]_vars

----------------------------------------------------------------------------
(* Properties *)

Ns(NN) == (-NN + 1)..(NN - 1)

\* the retained triples |n| <= l < L, |m| <= l
Retained(LL, NN) ==
    {t \in (0..(LL - 1)) \X ((-LL + 1)..(LL - 1)) \X Ns(NN) :
        Abs(t[3]) <= t[1] /\ Abs(t[2]) <= t[1]}

IsOdd(x) == x % 2 = 1

RoundTripDone == entry = "roundtrip" /\ pc = "done"

\* C1: after the forward transform of the inverse transform's output, every
\* retained coefficient (|n| <= l < L, |m| <= l) is back at its flat position
\* with its original value (all factors and signs cancel exactly).
C1_RoundTrip ==
    RoundTripDone =>
        \A t \in Retained(L, N) :
            LET i == so3_sampling_elmn2ind(t[1], t[2], t[3], L, N, storage)
            IN  i \in DOMAIN flmn_out /\ i \in DOMAIN flmn /\ flmn_out[i] = flmn[i]

C1_Witness ==
    /\ RoundTripDone /\ N = 2 /\ L = 3 /\ storage = "NEG_FIRST_COMPACT"
    /\ flmn_out[so3_sampling_elmn2ind(2, -1, -1, L, N, storage)]
         = Coef(so3_sampling_elmn2ind(2, -1, -1, L, N, storage))

\* n-range a layout stores: all of -N+1..N-1, or 0..N-1 for a real signal
NsFor(reality, NN) == IF reality THEN 0..(NN - 1) ELSE Ns(NN)

\* the triples a layout has a slot for
Slots(reality, tag, LL, NN) ==
    {t \in (0..(LL - 1)) \X ((-LL + 1)..(LL - 1)) \X NsFor(reality, NN) :
        Abs(t[2]) <= t[1] /\ (tag \in CompactTags => Abs(t[3]) <= t[1])}

RECURSIVE SumLen(_, _, _)
\* sum over n in lo..hi of (L^2 - n^2)
SumLen(lo, hi, LL) == IF lo > hi THEN 0 ELSE (LL * LL - lo * lo) + SumLen(lo + 1, hi, LL)

\* C2: the flmn_size the front-end computes equals the number of slots of the
\* layout: (2N-1)L^2 / N L^2 padded, and for compact layouts the sum of
\* L^2 - n^2 over the stored n, one slot per triple with |n| <= l, the
\* divisions by 3 and by 6 being exact.
C2_SizeIsSlotCount ==
    (storage_method \in ValidTags /\ 1 <= N /\ N <= L) =>
        /\ flmn_size = Cardinality(Slots(args.reality, storage_method, L, N))
        /\ storage_method \in PadTags =>
              flmn_size = (IF args.reality THEN N ELSE 2 * N - 1) * L * L
        /\ storage_method \in CompactTags =>
              /\ flmn_size = SumLen(IF args.reality THEN 0 ELSE -N + 1, N - 1, L)
              /\ IF args.reality
                 THEN 6 * flmn_size = N * (6 * L * L - (N - 1) * (2 * N - 1))
                 ELSE 3 * flmn_size = (2 * N - 1) * (3 * L * L - N * (N - 1))

C2_Witness ==
    /\ storage_method = "ZERO_FIRST_COMPACT" /\ ~args.reality
    /\ N = 2 /\ L = 3 /\ flmn_size = 25

\* flmn_out indices written for slice n: by the engine or the memcpy, and by the rescaling
FwdW(a) == fwdLog[a].wr \cup {fwdLog[a].sc[j][1] : j \in DOMAIN fwdLog[a].sc}

\* flat indices of the coefficients of slice a that the layout stores
BlockOf(a, LL, NN, tag) ==
    {so3_sampling_elmn2ind(t[1], t[2], a, LL, NN, tag) :
        t \in {u \in (0..(LL - 1)) \X ((-LL + 1)..(LL - 1)) :
                 Abs(u[2]) <= u[1] /\ (tag \in CompactTags => Abs(a) <= u[1])}}

FwdLoopOver == pc \in {"fwd_free", "mex_return", "done"}

\* C3: the index ranges the forward transform writes for distinct n are
\* pairwise disjoint, lie inside the buffer the front-end allocated and together
\* cover it; L^2 entries per n (padded), the L^2 - n^2 entries with l >= |n| (compact).
C3_WritesPartition ==
    (entry \in {"roundtrip", "mex"} /\ fwdLog # <<>>) =>
        /\ \A a \in DOMAIN fwdLog :
              /\ FwdW(a) \subseteq 0..(flmn_size - 1)
              /\ FwdW(a) = BlockOf(a, L, N, storage)
              /\ Cardinality(FwdW(a)) = BlockLen(a, L, storage)
        /\ \A a, b \in DOMAIN fwdLog : a # b => FwdW(a) \cap FwdW(b) = {}
        /\ FwdLoopOver =>
              /\ DOMAIN fwdLog = Ns(N)
              /\ UNION {FwdW(a) : a \in DOMAIN fwdLog} = 0..(flmn_size - 1)

C3_Witness ==
    /\ entry = "mex" /\ pc = "fwd_free" /\ storage = "ZERO_FIRST_COMPACT"
    /\ N = 2 /\ L = 2 /\ DOMAIN fwdLog = Ns(N)
    /\ FwdW(-1) = 7..9

\* the n whose slice belongs at physical position k (order 0,1,..,N-1,-N+1,..,-1)
PosN(k, NN) == IF k < NN THEN k ELSE k - (2 * NN - 1)

InvLoopPcs == {"inv_extract", "inv_rescale", "inv_ssht"}

\* C4: the backward Fourier pass runs only after the loop over n has finished,
\* when each of the 2N-1 slice positions has been written exactly once with the
\* slice computed for that position's n; n -> (n < 0 ? n + 2N-1 : n) is a bijection.
C4_FftAfterAllSlices ==
    /\ pc \in InvLoopPcs =>
          /\ f = <<>>
          /\ \A k \in DOMAIN fnWrites : fnWrites[k] = IF PosN(k, N) < n THEN 1 ELSE 0
    /\ pc = "inv_fft" =>
          /\ n = N /\ f = <<>>
          /\ DOMAIN fn = 0..(2 * N - 2)
          /\ \A k \in DOMAIN fn :
                fnWrites[k] = 1 /\ fn[k].ok /\ fn[k].spin = -PosN(k, N)
    /\ (entry \in {"roundtrip", "inverse"} /\ f # <<>>) =>
          \A k \in 0..(2 * N - 2) :
              /\ fnWrites[k] = 1 /\ f.basis[k].ok /\ f.basis[k].spin = -PosN(k, N)
              /\ Cardinality({a \in Ns(N) : InvOffset(a, N) = k}) = 1

C4_Witness ==
    /\ entry = "roundtrip" /\ pc = "mex_start" /\ N = 3 /\ f # <<>>
    /\ f.basis[4].spin = 1 /\ fnWrites[4] = 1

\* C5: every precondition violation is reported while no transient buffer is allocated.
C5_FailBeforeAlloc == pc = "error" => alloc = {}

\* C7: each coefficient written for slice n is rescaled exactly once, with
\* sign(n) sqrt(4 pi/(2l+1)) for its own degree l (block position i has
\* l = floor(sqrt(i)) in padded layouts and l^2 - n^2 <= i < (l+1)^2 - n^2 in
\* compact ones), and no position outside the slice's block is rescaled.
C7_RescaleOwnDegree ==
    \A a \in DOMAIN fwdLog :
        fwdLog[a].scaled =>
            LET sc == fwdLog[a].sc
                b0 == BlockStart(BlockPos(a, N, storage), L, N, storage)
                sg == IF IsOdd(a) THEN -1 ELSE 1
            IN  /\ Len(sc) = BlockLen(a, L, storage)
                /\ fwdLog[a].sign = sg
                /\ \A j \in DOMAIN sc :
                      LET i == j - 1
                          el == sc[j][2]
                      IN  /\ sc[j][1] = b0 + i
                          /\ el < L
                          /\ IF storage \in PadTags
                             THEN el * el <= i /\ i < (el + 1) * (el + 1)
                             ELSE /\ Abs(a) <= el
                                  /\ el * el - a * a <= i
                                  /\ i < (el + 1) * (el + 1) - a * a
                          /\ entry = "mex" =>
                                flmn_out[sc[j][1]].k = SSqrt(sg, 4, 1, 2 * el + 1, 0)

C7_Witness ==
    /\ entry = "mex" /\ storage = "NEG_FIRST_COMPACT" /\ L = 3 /\ N = 2
    /\ -1 \in DOMAIN fwdLog /\ fwdLog[-1].scaled
    /\ fwdLog[-1].sc[4] = <<3, 2>>
    /\ flmn_out[3].k = SSqrt(-1, 4, 1, 5, 0)

\* C8: the work vector handed to the engine for slice n depends only on flmn
\* and n: the L^2 block of n (padded), or n^2 zeros followed by the stored
\* coefficients of n (compact), each entry multiplied once by
\* sqrt((2l+1)/(16 pi^3)) for its own degree; reads and writes stay in bounds.
C8_WorkVector ==
    pc = "inv_ssht" =>
        LET b0 == BlockStart(BlockPos(n, N, storage), L, N, storage)
        IN  /\ DOMAIN flm = 0..(L * L - 1)
            /\ acc.rd \subseteq DOMAIN flmn
            /\ acc.wr = 0..(L * L - 1)
            /\ \A i \in 0..(L * L - 1) :
                  flm[i] = VMul(IF storage \in PadTags THEN flmn[b0 + i]
                                ELSE IF i < n * n THEN ZeroV
                                ELSE flmn[b0 + (i - n * n)],
                                SSqrt(1, 2 * ElOf(i) + 1, 0, 16, 3))

C8_Witness ==
    /\ pc = "inv_ssht" /\ n = 1 /\ N = 2 /\ L = 2 /\ storage = "ZERO_FIRST_COMPACT"
    /\ flm[0].src = 0 /\ flm[1] = VMul(Coef(4), SSqrt(1, 3, 0, 16, 3))

\* C9: for every n in -N+1..N-1, negative ones included, the inverse negates
\* slice n iff n is odd and the forward uses sign -1 iff n is odd, so the two
\* agree and their product is +1.
C9_SignParity ==
    /\ pc \in InvLoopPcs \cup {"inv_fft"} =>
          \A k \in DOMAIN fn :
              fnWrites[k] > 0 => (fn[k].k.sgn = -1 <=> IsOdd(PosN(k, N)))
    /\ \A a \in DOMAIN fwdLog :
          /\ fwdLog[a].sign \in {-1, 1}
          /\ fwdLog[a].sign = -1 <=> IsOdd(a)
          /\ entry = "roundtrip" =>
                fwdLog[a].sign * f.basis[IF a < 0 THEN a + 2 * N - 1 ELSE a].k.sgn = 1

C9_Witness ==
    /\ entry = "roundtrip" /\ N = 2 /\ -1 \in DOMAIN fwdLog
    /\ fwdLog[-1].sign = -1 /\ f.basis[2].k.sgn = -1 /\ f.basis[2].spin = 1

\* differences d = m'' - m' that step 4 meets
Ds(LL) == (-(2 * LL - 2))..(2 * LL - 2)

\* the weights step 4 used at difference d
WAt(d) ==
    {gmm[x[1]][x[2]] : x \in {y \in (DOMAIN gmm) \X Ms(L) : y[2] - y[1][2] = d}}

PureImag(w) == w.re[1] = 0 /\ w.im # 0

IsZeroW(w) == w.re[1] = 0 /\ w.im = 0

Step4Started == entry = "dft" /\ gmm # <<>>

\* what the weights have besides the symmetry: purely imaginary exactly at
\* |d| = 1, zero at every other odd d, 2/(1 - d^2) at every even d
KernelValues ==
    \A d \in Ds(L) :
        /\ Cardinality(WAt(d)) = 1
        /\ \A w \in WAt(d) :
              /\ PureImag(w) <=> Abs(d) = 1
              /\ (d % 2 = 1 /\ Abs(d) # 1) => IsZeroW(w)
              /\ d % 2 = 0 =>
                    /\ w.im = 0 /\ w.re[2] # 0
                    /\ w.re[1] * (1 - d * d) = 2 * w.re[2]

\* C6 as stated: the weight is symmetric, w(d) = w(-d) for every d, purely
\* imaginary exactly at |d| = 1, zero at every other odd d, 2/(1-d^2) at even d.
C6_KernelSymmetric ==
    Step4Started => (KernelValues /\ \A d \in Ds(L) : WAt(d) = WAt(-d))

\* C6 amended: w(-d) = w(d) for every |d| # 1 and w(-d) = -w(d) at |d| = 1, where
\* w(d) = i d pi/2 (w(-d) is the complex conjugate of w(d) for every d); purely
\* imaginary exactly at |d| = 1, zero at every other odd d, 2/(1-d^2) at even d.
C6_KernelHermitian ==
    Step4Started =>
        /\ KernelValues
        /\ \A d \in Ds(L) : \A w \in WAt(d) : \A v \in WAt(-d) :
              /\ v.re = w.re /\ v.im = -w.im
              /\ Abs(d) # 1 => v = w
              /\ Abs(d) = 1 => w.im = d /\ v.im = -d

C6_Witness ==
    /\ Step4Started /\ L = 2
    /\ WAt(1) = {[re |-> <<0, 1>>, im |-> 1]}
    /\ WAt(-1) = {[re |-> <<0, 1>>, im |-> -1]}
    /\ WAt(2) = {[re |-> <<2, -3>>, im |-> 0]}
    /\ WAt(-2) = WAt(2)

\* the angle at which the sample behind an fm entry lies: the sampled
\* colatitude itself, or 2 pi minus it for a reflected entry
LocatedAt(e, LL) ==
    IF e.refl THEN TwoPi(LL) - ssht_sampling_thetas(LL)[e.t + 1]
    ELSE ssht_sampling_thetas(LL)[e.t + 1]

Step12Done == entry = "dft" /\ pc \in {"dft_step3", "dft_step4", "dft_step5", "done"}

\* after steps 1-2 every entry of fm has been written exactly once, with
\* fm(m, -t) = (-1)^m fm(m, t) for t = 1..L-1
FmFilled ==
    Step12Done =>
        /\ \A c \in DOMAIN fm : fm[c].w = 1
        /\ \A mm \in Ms(L) : \A t \in 0..(L - 1) :
              /\ fm[<<L + mm, L + t>>].m = mm /\ fm[<<L + mm, L + t>>].t = t
              /\ fm[<<L + mm, L + t>>].sgn = 1
              /\ t > 0 =>
                    /\ fm[<<L + mm, L - t>>].m = mm /\ fm[<<L + mm, L - t>>].t = t
                    /\ fm[<<L + mm, L - t>>].sgn = MinusOnePow(mm)

\* C10: after steps 1-2 every entry of fm has been written exactly once with
\* fm(m,-t) = (-1)^m fm(m,t), and in step 3 the column multiplied by
\* exp(-i m' thetasExt(k)) holds the coefficient of the sample located at
\* thetasExt(k): thetas(k) itself for k <= L, the reflected sample for k > L.
C10_ColumnsMatchAngles ==
    /\ FmFilled
    /\ entry = "dft" =>
          \A c \in DOMAIN fmm : \A k \in DOMAIN fmm[c] :
              LET term == fmm[c][k]
              IN  /\ term.theta = 2 * (k - 1) + 1
                  /\ LocatedAt(term.e, L) = term.theta
                  /\ term.e.refl <=> k > L

\* the matrix a recursion stream holds after it was started from zeros and advanced
\* with the degrees 0, 1, .., el in this order, every call at angle theta
DlStream(el, theta) == [i \in 1..(el + 1) |-> [el |-> i - 1, theta |-> theta]]

\* colatitude of grid row j as a fraction in units of pi/(2L-1)
ThetaOf(j) == <<2 * (j - 1) + 1, 1>>

\* the terms of one grid point are those of the degrees 0..L-1 in order, each
\* using the matrix its own degree's call produced at the point's angle
TermsOk(terms, theta) ==
    \A p \in DOMAIN terms : terms[p].dl = DlStream(terms[p].l, theta)

\* step 5 of forward_for_dft: one stream at pi/2; the next call has degree m
DftStreamOk ==
    entry = "dft" /\ pc \in {"dft_step5", "done"} =>
        /\ dl = DlStream(m - 1, HalfPi(L))
        /\ m <= L
        /\ \A i \in 1..(lmi - 1) : dflm[i].dl = DlStream(dflm[i].l, HalfPi(L))

\* inverse_direct: one stream per grid point; the next call has degree deg
DirStreamOk ==
    /\ entry = "direct" /\ pc \in {"dir_degree", "dir_store"} =>
          /\ dl = DlStream(deg - 1, ThetaOf(jk[1]))
          /\ deg <= L
          /\ Len(sum) = deg * deg
          /\ TermsOk(sum, ThetaOf(jk[1]))
    /\ entry = "direct" =>
          \A c \in DOMAIN fdir :
              /\ TermsOk(fdir[c], ThetaOf(c[1]))
              /\ Len(fdir[c]) \in {0, L * L}

\* the running index at every (l, m) reached so far equals l^2 + l + m + base
IndexOk(base) ==
    /\ entry = "dft" /\ pc \in {"dft_step5", "done"} =>
          /\ lmi = m * m + base
          /\ \A i \in 1..(lmi - 1) :
                i = dflm[i].l * dflm[i].l + dflm[i].l + dflm[i].m + base
    /\ entry = "direct" /\ pc \in {"dir_degree", "dir_store"} =>
          /\ lmindex = deg * deg + base
          /\ \A p \in DOMAIN sum :
                sum[p].lmindex = sum[p].l * sum[p].l + sum[p].l + sum[p].m + base
    /\ entry = "direct" =>
          \A c \in DOMAIN fdir : \A p \in DOMAIN fdir[c] :
              LET t == fdir[c][p]
              IN  t.lmindex = t.l * t.l + t.l + t.m + base

\* C11 as stated: every recursion stream of forward_for_dft and inverse_direct
\* starts from zeros and is advanced with the degrees 0..L-1 in increasing order
\* at one angle, the terms of degree l use the matrix of the call with degree l,
\* and the running coefficient index at (l, m) equals l^2 + l + m
C11_IndexZeroBased == DftStreamOk /\ DirStreamOk /\ IndexOk(0)

\* C11 amended: the same, with the running coefficient index at (l, m) equal to
\* l^2 + l + m + 1, the one-based index of the canonical position l^2 + l + m
C11_Streams == DftStreamOk /\ DirStreamOk /\ IndexOk(1)

\* inverse_direct has returned for L >= 2: every grid point, the second and later
\* ones included, has its L^2 terms
C11_Witness ==
    /\ entry = "direct" /\ pc = "done" /\ L >= 2
    /\ \A c \in DOMAIN fdir : Len(fdir[c]) = L * L

\* the transient resources of the two core routines
Transients == {"fn", "ftemp", "plan", "flm"}

\* how many of the first k events of log apply op to resource r
EventCount(log, k, op, r) ==
    Cardinality({i \in 1..k : log[i].op = op /\ log[i].res = r})

\* r is acquired and not yet released after the first k events of log
LiveAfter(log, k, r) ==
    EventCount(log, k, "acquire", r) = EventCount(log, k, "release", r) + 1

\* every release and every use finds its resource live, and no resource is
\* acquired while it is live
HeapOrderOk(log) ==
    \A i \in DOMAIN log :
        IF log[i].op = "acquire"
        THEN ~LiveAfter(log, i - 1, log[i].res)
        ELSE LiveAfter(log, i - 1, log[i].res)

\* the core routine called last has returned normally
CoreReturned ==
    /\ heap.call # "none"
    /\ pc # "error"
    /\ heap.call = "inverse" => pc \notin {"inv_extract", "inv_rescale", "inv_ssht", "inv_fft"}
    /\ heap.call = "forward" => pc \notin {"fwd_analyse", "fwd_rescale", "fwd_free"}

\* the resources a call acquires: flm in the forward transform only for compact layouts
AcquiredBy(call, st) ==
    IF call = "inverse" THEN {"fn", "plan", "flm"}
    ELSE {"fn", "ftemp", "plan"} \cup (IF st \in {"ZERO_FIRST_COMPACT", "NEG_FIRST_COMPACT"}
                                       THEN {"flm"} ELSE {})

\* C12: on every normal return of the forward and inverse core routines, for each
\* valid layout, every transient resource acquired during the call (fn, ftemp, the
\* plan, and flm, which the forward transform acquires only for compact layouts) was
\* released exactly once, none was released without having been acquired, and none
\* was used after its release: the FFT runs while its buffers are allocated and flm
\* is used only where it was allocated
C12_ReleasedOnce ==
    /\ HeapOrderOk(heap.log)
    /\ CoreReturned /\ storage \in ValidTags =>
          \A r \in Transients :
              LET k == Len(heap.log)
                  a == EventCount(heap.log, k, "acquire", r)
              IN  /\ a = (IF r \in AcquiredBy(heap.call, storage) THEN 1 ELSE 0)
                  /\ EventCount(heap.log, k, "release", r) = a
                  /\ EventCount(heap.log, k, "use", r) >= a

\* the forward transform has returned for a compact layout and more than one
\* orientation order, after the inverse transform of the same run
C12_Witness ==
    /\ entry = "roundtrip" /\ heap.call = "forward" /\ CoreReturned
    /\ storage \in {"ZERO_FIRST_COMPACT", "NEG_FIRST_COMPACT"} /\ N >= 2
    /\ EventCount(heap.log, Len(heap.log), "release", "flm") = 1

====
